---- MODULE Spec2Model ----
(***************************************************************************)
(* Model of ser_mapper's impl_dto! macro (src/src/lib.rs): the generated   *)
(* dto_serialize operation, the eight serialization wrappers and the       *)
(* @count arity helper, driven against a serde sink that may fail at any   *)
(* call.  A sink is modelled by the log of the calls made on it.           *)
(***************************************************************************)
EXTENDS Integers, Sequences, FiniteSets, TLC

VARIABLES mapping, frame, input, sink, result

vars == <<mapping, frame, input, sink, result>>

(* ------------------------------------------------------------------ *)
(* Bounds                                                              *)
(* ------------------------------------------------------------------ *)

\* longest input sequence handed to a sequence wrapper when one call runs
MaxSeqLen == 2
\* longest input sequence when two calls run interleaved
ParSeqLen == 1

(* ------------------------------------------------------------------ *)
(* Values                                                              *)
(* ------------------------------------------------------------------ *)

\* a string is the tuple of its characters
Str(chars) == [t |-> "str", v |-> chars]

U8(n) == [t |-> "u8", v |-> n % 256]

RecordId(table, key) == [t |-> "RecordId", table |-> table, key |-> key]

Dbo(id, full_name, age) == [t |-> "Dbo", id |-> id, full_name |-> full_name, age |-> age]

\* Dbo::new(), the fixture of the tests
DboNew ==
  Dbo(RecordId(Str(<<"u","s","e","r">>), Str(<<"a","b","d","c","_","1","2","3">>)),
      Str(<<"H","e","l","l","o"," ","w","o","r","l","d","!">>),
      U8(69))

\* a value whose full_name has a single token
DboSolo ==
  Dbo(RecordId(Str(<<"u","s","e","r">>), Str(<<"k","2">>)),
      Str(<<"S","o","l","o">>),
      U8(7))

\* a value whose full_name has two spaces in a row and a large age
DboGap ==
  Dbo(RecordId(Str(<<"o","r","g">>), Str(<<"k","3">>)),
      Str(<<"J"," "," ","D">>),
      U8(255))

\* references, options
Ref(x) == [t |-> "ref", to |-> x]
Deref(r) == r.to
Some(x) == [t |-> "Some", v |-> x]
None == [t |-> "None"]
\* a Vec and its elements, a tuple
Vec(xs) == [t |-> "Vec", v |-> xs]

(* ------------------------------------------------------------------ *)
(* Transforms of the test mapping                                      *)
(* ------------------------------------------------------------------ *)

\* the outcome of a transform that panics
Panicked == [t |-> "panic"]

RECURSIVE SplitFrom(_, _, _, _)
\* str::split(sep): the tokens of chars from position i on, cur being the
\* token under construction; n separators give n + 1 tokens, empty ones kept
SplitFrom(chars, sep, i, cur) ==
  IF i > Len(chars) THEN <<cur>>
  ELSE IF chars[i] = sep THEN <<cur>> \o SplitFrom(chars, sep, i + 1, <<>>)
  ELSE SplitFrom(chars, sep, i + 1, Append(cur, chars[i]))

Split(chars, sep) == SplitFrom(chars, sep, 1, <<>>)

\* faulty variant of NthUnwrap: unwrap_or_default() in place of unwrap()
NthUnwrapOrDefault(tokens, n) ==
  IF n + 1 <= Len(tokens) THEN Str(tokens[n + 1]) ELSE Str(<<>>)

\* Iterator::nth(n) (zero-based) followed by unwrap().to_owned()
NthUnwrap(tokens, n) ==
  IF n + 1 <= Len(tokens) THEN Str(tokens[n + 1]) ELSE Panicked

\* _IdRef as a function: wraps the borrowed RecordId
IdRef(value) == [t |-> "_IdRef", v |-> value]

FirstToken(value) == NthUnwrap(Split(Deref(value).v, " "), 0)

SecondToken(value) == NthUnwrap(Split(Deref(value).v, " "), 1)

\* $($fn_expr)?(value): the declared transform applied to the borrowed
\* value, or the borrowed value itself when none is declared
ApplyTransform(f, value) ==
  CASE f = "none"   -> value
    [] f = "_IdRef" -> IdRef(value)
    [] f = "first"  -> FirstToken(value)
    [] f = "second" -> SecondToken(value)

RECURSIVE Resolve(_, _)
\* &self.$($inner_path).+ : member access along the path
Resolve(self, path) ==
  IF Len(path) = 0 THEN self ELSE Resolve(self[Head(path)], Tail(path))

\* what value.serialize(..) hands to the sink for a field value: a
\* reference serializes as its referent, an _IdRef wrapper through
\* RecordId's dto_serialize, which writes the key string
RECURSIVE Serialized(_)
Serialized(value) ==
  CASE value.t = "ref"    -> Serialized(Deref(value))
    [] value.t = "_IdRef" -> Deref(value.v).key
    [] OTHER              -> value

(* ------------------------------------------------------------------ *)
(* Mappings                                                            *)
(* ------------------------------------------------------------------ *)

FieldSpec(name, path, transform) == [name |-> name, path |-> path, transform |-> transform]

DtoName == "Dto"

\* the mapping of the tests
TestMapping ==
  << FieldSpec("user_id", <<"id">>, "_IdRef"),
     FieldSpec("first_name", <<"full_name">>, "first"),
     FieldSpec("last_name", <<"full_name">>, "second"),
     FieldSpec("age", <<"age">>, "none") >>

\* a mapping of one field
OneFieldMapping == << FieldSpec("age", <<"age">>, "none") >>

\* a mapping with a two-step path, and the same source field mapped twice
PathMapping ==
  << FieldSpec("last_name", <<"full_name">>, "second"),
     FieldSpec("key", <<"id", "key">>, "none"),
     FieldSpec("name", <<"full_name">>, "none") >>

Mappings == {TestMapping, OneFieldMapping, PathMapping}

\* the mappings of the scenario with interleaved calls
ParMappings == {TestMapping, OneFieldMapping}

\* faulty variant of Count: the recursive rule never matches
CountBaseOnly(fields) == 1

RECURSIVE Count(_)
\* impl_dto!(@count ...)
Count(fields) ==
  IF Len(fields) = 1 THEN 1 ELSE 1 + Count(Tail(fields))

(* ------------------------------------------------------------------ *)
(* Wrappers                                                            *)
(* ------------------------------------------------------------------ *)

Wrap(kind, v) == [kind |-> kind, v |-> v]

SingleKinds == {"_Dto", "_DtoRef"}
OptionKinds == {"_DtoOption", "_DtoRefOption", "_DtoOptionRef"}
SeqKinds == {"_DtoVec", "_DtoRefVec", "_DtoVecRef"}

SeqsUpTo(S, n) == UNION {[1..k -> S] : k \in 0..n}

\* every wrapper value over the source values vals, sequences up to maxLen
Wrappers(vals, maxLen) ==
  LET refs == {Ref(d) : d \in vals} IN
       {Wrap("_Dto", d) : d \in vals}
  \cup {Wrap("_DtoRef", r) : r \in refs}
  \cup {Wrap("_DtoOption", o) : o \in {Some(d) : d \in vals} \cup {None}}
  \cup {Wrap("_DtoRefOption", o) : o \in {Some(r) : r \in refs} \cup {None}}
  \cup {Wrap("_DtoOptionRef", Ref(o)) : o \in {Some(d) : d \in vals} \cup {None}}
  \cup {Wrap("_DtoVec", Vec(xs)) : xs \in SeqsUpTo(vals, maxLen)}
  \cup {Wrap("_DtoRefVec", Vec(xs)) : xs \in SeqsUpTo(refs, maxLen)}
  \cup {Wrap("_DtoVecRef", Ref(Vec(xs))) : xs \in SeqsUpTo(vals, maxLen)}

(* ------------------------------------------------------------------ *)
(* The sink and the calls                                              *)
(* ------------------------------------------------------------------ *)

\* the errors a sink can return
Errors == {"E1", "E2"}


Nil == [t |-> "nil"]

Pending == [t |-> "pending", e |-> ""]
Ok == [t |-> "Ok", e |-> ""]
Err(e) == [t |-> "Err", e |-> e]
Panic == [t |-> "panic", e |-> ""]

\* a call that has not started
Idle ==
  [pc |-> "idle", wrapper |-> Nil, self |-> Nil, fld |-> 0,
   items |-> <<>>, idx |-> 0, inSeq |-> FALSE]

Calls == DOMAIN frame

\* the source values and the sequence bound of the scenario: one call runs
\* over the richer inputs, interleaved calls over the smaller ones
SourceValues == IF Cardinality(Calls) = 1 THEN {DboNew, DboSolo, DboGap} ELSE {DboNew, DboSolo}
SeqBound == IF Cardinality(Calls) = 1 THEN MaxSeqLen ELSE ParSeqLen

\* what a sink call returns: success, or an error (one error is enough to
\* tell failure from success when calls are interleaved)
Returns == {"ok"} \cup (IF Cardinality(Calls) = 1 THEN Errors ELSE {"E1"})

\* the log entries of the sink calls
SerializeStruct(name, len, r) == [op |-> "serialize_struct", name |-> name, len |-> len, ret |-> r]
SerializeField(key, value, r) == [op |-> "serialize_field", key |-> key, value |-> value, ret |-> r]
StructEnd(r) == [op |-> "struct_end", ret |-> r]
SerializeNone(r) == [op |-> "serialize_none", ret |-> r]
SerializeSeq(len, r) == [op |-> "serialize_seq", len |-> len, ret |-> r]
SerializeElement(r) == [op |-> "serialize_element", ret |-> r]
SeqEndEntry(r) == [op |-> "seq_end", ret |-> r]

\* faulty variant of Try: the error is replaced by another on the way out
TryReplace(e) == "E1"

\* the ? operator on a sink error: the error returned is the error received
Try(e) == e

\* the call c ends with result res
Finish(c, res) ==
  /\ frame' = [frame EXCEPT ![c].pc = "done"]
  /\ result' = [result EXCEPT ![c] = res]

\* faulty variant of Log: one buffer shared by every call
LogShared(c, entry) == sink' = [d \in DOMAIN sink |-> Append(sink[d], entry)]

\* the sink of call c receives the call entry
Log(c, entry) == sink' = [sink EXCEPT ![c] = Append(@, entry)]

TypeOK ==
  /\ mapping \in Mappings
  /\ \A c \in Calls :
       /\ frame[c].pc \in {"idle", "serialize", "dto_open", "dto_field", "seq_loop", "done"}
       /\ result[c].t \in {"pending", "Ok", "Err", "panic"}

Init1 ==
  /\ mapping \in Mappings
  /\ frame = [c \in {1} |-> Idle]
  /\ input = [c \in {1} |-> Nil]
  /\ sink = [c \in {1} |-> <<>>]
  /\ result = [c \in {1} |-> Pending]

Init2 ==
  /\ mapping \in ParMappings
  /\ frame = [c \in {1, 2} |-> Idle]
  /\ input = [c \in {1, 2} |-> Nil]
  /\ sink = [c \in {1, 2} |-> <<>>]
  /\ result = [c \in {1, 2} |-> Pending]

(* ------------------------------------------------------------------ *)
(* Operations                                                          *)
(* ------------------------------------------------------------------ *)

\* serde_json::to_string(&w) and the like: the caller hands wrapper w and a
\* fresh sink to serialize
Serialize(c, w) ==
  /\ frame[c].pc = "idle"
  /\ frame' = [frame EXCEPT ![c].pc = "serialize", ![c].wrapper = w]
  /\ input' = [input EXCEPT ![c] = w]
  /\ UNCHANGED <<mapping, sink, result>>

\* _Dto::serialize: self.0.dto_serialize(serializer)
Dto_serialize(c) ==
  /\ frame[c].pc = "serialize"
  /\ frame[c].wrapper.kind = "_Dto"
  /\ frame' = [frame EXCEPT ![c].pc = "dto_open", ![c].self = Ref(frame[c].wrapper.v)]
  /\ UNCHANGED <<mapping, input, sink, result>>

\* _DtoRef::serialize: self.0.dto_serialize(serializer)
DtoRef_serialize(c) ==
  /\ frame[c].pc = "serialize"
  /\ frame[c].wrapper.kind = "_DtoRef"
  /\ frame' = [frame EXCEPT ![c].pc = "dto_open", ![c].self = frame[c].wrapper.v]
  /\ UNCHANGED <<mapping, input, sink, result>>

\* faulty variant of MatchOption: None is written as an empty record
MatchOptionEmptyRecord(c, opt, inner) ==
  \/ /\ opt.t = "Some"
     /\ frame' = [frame EXCEPT ![c].wrapper = Wrap("_DtoRef", inner)]
     /\ UNCHANGED <<mapping, input, sink, result>>
  \/ /\ opt.t = "None"
     /\ sink' = [sink EXCEPT ![c] = @ \o <<[op |-> "serialize_struct", name |-> DtoName,
                                            len |-> 0, ret |-> "ok"],
                                           [op |-> "struct_end", ret |-> "ok"]>>]
     /\ frame' = [frame EXCEPT ![c].pc = "done"]
     /\ result' = [result EXCEPT ![c] = Ok]
     /\ UNCHANGED <<mapping, input>>

\* match on an option: Some(inner) goes on as _DtoRef(inner), None calls
\* serializer.serialize_none()
MatchOption(c, opt, inner) ==
  \/ /\ opt.t = "Some"
     /\ frame' = [frame EXCEPT ![c].wrapper = Wrap("_DtoRef", inner)]
     /\ UNCHANGED <<mapping, input, sink, result>>
  \/ /\ opt.t = "None"
     /\ \E r \in Returns :
          /\ Log(c, SerializeNone(r))
          /\ Finish(c, IF r = "ok" THEN Ok ELSE Err(r))
     /\ UNCHANGED <<mapping, input>>

\* _DtoOption::serialize: match &self.0
DtoOption_serialize(c) ==
  /\ frame[c].pc = "serialize"
  /\ frame[c].wrapper.kind = "_DtoOption"
  /\ LET opt == frame[c].wrapper.v
     IN MatchOption(c, opt, IF opt.t = "Some" THEN Ref(opt.v) ELSE Nil)

\* _DtoRefOption::serialize: match self.0, an Option<&T>
DtoRefOption_serialize(c) ==
  /\ frame[c].pc = "serialize"
  /\ frame[c].wrapper.kind = "_DtoRefOption"
  /\ LET opt == frame[c].wrapper.v
     IN MatchOption(c, opt, IF opt.t = "Some" THEN opt.v ELSE Nil)

\* _DtoOptionRef::serialize: match self.0, an &Option<T>
DtoOptionRef_serialize(c) ==
  /\ frame[c].pc = "serialize"
  /\ frame[c].wrapper.kind = "_DtoOptionRef"
  /\ LET opt == Deref(frame[c].wrapper.v)
     IN MatchOption(c, opt, IF opt.t = "Some" THEN Ref(opt.v) ELSE Nil)

\* faulty variant of DtoVec_serialize: the first element is skipped
DtoVec_serializeSkipFirst(c) ==
  /\ frame[c].pc = "serialize"
  /\ frame[c].wrapper.kind = "_DtoVec"
  /\ LET xs == frame[c].wrapper.v.v
     IN frame' = [frame EXCEPT ![c].wrapper =
                    Wrap("_DtoVecRef", Ref(Vec(IF Len(xs) = 0 THEN xs ELSE Tail(xs))))]
  /\ UNCHANGED <<mapping, input, sink, result>>

\* _DtoVec::serialize: _DtoVecRef(&self.0).serialize(serializer)
DtoVec_serialize(c) ==
  /\ frame[c].pc = "serialize"
  /\ frame[c].wrapper.kind = "_DtoVec"
  /\ frame' = [frame EXCEPT ![c].wrapper = Wrap("_DtoVecRef", Ref(frame[c].wrapper.v))]
  /\ UNCHANGED <<mapping, input, sink, result>>

\* serializer.serialize_seq(Some(self.0.len()))? and the start of the loop
\* over self.0.iter(), whose items are the references refs
OpenSeq(c, refs) ==
  \E r \in Returns :
    /\ Log(c, SerializeSeq(Len(refs), r))
    /\ IF r = "ok"
         THEN /\ frame' = [frame EXCEPT ![c].pc = "seq_loop", ![c].items = refs,
                                        ![c].idx = 1, ![c].inSeq = TRUE]
              /\ UNCHANGED result
         ELSE Finish(c, Err(Try(r)))
    /\ UNCHANGED <<mapping, input>>

\* _DtoRefVec::serialize, up to the loop
DtoRefVec_serialize(c) ==
  /\ frame[c].pc = "serialize"
  /\ frame[c].wrapper.kind = "_DtoRefVec"
  /\ ~frame[c].inSeq
  /\ OpenSeq(c, frame[c].wrapper.v.v)

\* _DtoVecRef::serialize, up to the loop
DtoVecRef_serialize(c) ==
  /\ frame[c].pc = "serialize"
  /\ frame[c].wrapper.kind = "_DtoVecRef"
  /\ ~frame[c].inSeq
  /\ LET xs == Deref(frame[c].wrapper.v).v
     IN OpenSeq(c, [i \in 1..Len(xs) |-> Ref(xs[i])])

\* faulty variant of NextIndex: every other element is skipped
NextIndexSkip(i) == i + 2

\* the index of the element after element i
NextIndex(i) == i + 1

\* one turn of the loop: item = _DtoRef(inner); state.serialize_element(&item)?
\* The sink fails, or it serializes the item
SeqElement(c) ==
  /\ frame[c].pc = "seq_loop"
  /\ frame[c].idx <= Len(frame[c].items)
  /\ \E r \in Returns :
       /\ Log(c, SerializeElement(r))
       /\ IF r = "ok"
            THEN /\ frame' = [frame EXCEPT ![c].pc = "serialize",
                                ![c].wrapper = Wrap("_DtoRef", frame[c].items[frame[c].idx])]
                 /\ UNCHANGED result
            ELSE Finish(c, Err(Try(r)))
  /\ UNCHANGED <<mapping, input>>

\* after the loop: state.end()
SeqEnd(c) ==
  /\ frame[c].pc = "seq_loop"
  /\ frame[c].idx > Len(frame[c].items)
  /\ \E r \in Returns :
       /\ Log(c, SeqEndEntry(r))
       /\ Finish(c, IF r = "ok" THEN Ok ELSE Err(r))
  /\ UNCHANGED <<mapping, input>>

\* dto_serialize: serializer.serialize_struct(stringify!($dto), @count)?
DtoSerializeOpen(c) ==
  /\ frame[c].pc = "dto_open"
  /\ \E r \in Returns :
       /\ Log(c, SerializeStruct(DtoName, Count(mapping), r))
       /\ IF r = "ok"
            THEN /\ frame' = [frame EXCEPT ![c].pc = "dto_field", ![c].fld = 1]
                 /\ UNCHANGED result
            ELSE Finish(c, Err(Try(r)))
  /\ UNCHANGED <<mapping, input>>

\* faulty variant of NextField: every other field block is skipped
NextFieldSkip(i) == i + 2

\* faulty variant of FieldValue: the declared transform is not applied
FieldValueRaw(self, f) == Ref(Resolve(Deref(self), f.path))

\* the field block after block i of the macro's repetition
NextField(i) == i + 1

\* the value of field f of self: the path resolved, the transform applied
FieldValue(self, f) == ApplyTransform(f.transform, Ref(Resolve(Deref(self), f.path)))

\* dto_serialize: the block of one field.  The transform may panic; else
\* state.serialize_field(stringify!($field), &value)?
DtoSerializeField(c) ==
  /\ frame[c].pc = "dto_field"
  /\ frame[c].fld <= Len(mapping)
  /\ LET f == mapping[frame[c].fld]
         value == FieldValue(frame[c].self, f)
     IN IF value = Panicked
          THEN /\ Finish(c, Panic)
               /\ UNCHANGED sink
          ELSE \E r \in Returns :
                 /\ Log(c, SerializeField(f.name, Serialized(value), r))
                 /\ IF r = "ok"
                      THEN /\ frame' = [frame EXCEPT ![c].fld = NextField(@)]
                           /\ UNCHANGED result
                      ELSE Finish(c, Err(Try(r)))
  /\ UNCHANGED <<mapping, input>>

\* dto_serialize: state.end(), whose result is the result of dto_serialize;
\* inside a sequence, serialize_element returns it to the loop
DtoSerializeEnd(c) ==
  /\ frame[c].pc = "dto_field"
  /\ frame[c].fld > Len(mapping)
  /\ \E r \in Returns :
       /\ Log(c, StructEnd(r))
       /\ IF r # "ok"
            THEN Finish(c, Err(IF frame[c].inSeq THEN Try(r) ELSE r))
            ELSE IF frame[c].inSeq
                   THEN /\ frame' = [frame EXCEPT ![c].pc = "seq_loop", ![c].idx = NextIndex(@)]
                        /\ UNCHANGED result
                   ELSE Finish(c, Ok)
  /\ UNCHANGED <<mapping, input>>

Next ==
  \/ \E c \in Calls : \E w \in Wrappers(SourceValues, SeqBound) : Serialize(c, w)
  \/ \E c \in Calls : Dto_serialize(c)
  \/ \E c \in Calls : DtoRef_serialize(c)
  \/ \E c \in Calls : DtoOption_serialize(c)
  \/ \E c \in Calls : DtoRefOption_serialize(c)
  \/ \E c \in Calls : DtoOptionRef_serialize(c)
  \/ \E c \in Calls : DtoVec_serialize(c)
  \/ \E c \in Calls : DtoRefVec_serialize(c)
  \/ \E c \in Calls : DtoVecRef_serialize(c)
  \/ \E c \in Calls : SeqElement(c)
  \/ \E c \in Calls : SeqEnd(c)
  \/ \E c \in Calls : DtoSerializeOpen(c)
  \/ \E c \in Calls : DtoSerializeField(c)
  \/ \E c \in Calls : DtoSerializeEnd(c)

\* one serialize call
Spec == Init1 /\ [][Next]_vars

\* two serialize calls, their steps interleaved
SpecPar == Init2 /\ [][Next]_vars

(* ------------------------------------------------------------------ *)
(* Reading a call and its sink log                                     *)
(* ------------------------------------------------------------------ *)

Started(c) == frame[c].pc # "idle"
Done(c) == frame[c].pc = "done"
Succeeded(c) == result[c] = Ok

\* the source values a wrapper stands for, in order
Logical(w) ==
  CASE w.kind = "_Dto"          -> <<w.v>>
    [] w.kind = "_DtoRef"       -> <<Deref(w.v)>>
    [] w.kind = "_DtoOption"    -> IF w.v.t = "Some" THEN <<w.v.v>> ELSE <<>>
    [] w.kind = "_DtoRefOption" -> IF w.v.t = "Some" THEN <<Deref(w.v.v)>> ELSE <<>>
    [] w.kind = "_DtoOptionRef" -> IF Deref(w.v).t = "Some" THEN <<Deref(w.v).v>> ELSE <<>>
    [] w.kind = "_DtoVec"       -> w.v.v
    [] w.kind = "_DtoRefVec"    -> [i \in 1..Len(w.v.v) |-> Deref(w.v.v[i])]
    [] w.kind = "_DtoVecRef"    -> Deref(w.v).v

Names(m) == [i \in 1..Len(m) |-> m[i].name]

\* the positions of the entries of log with operation op, ascending
Positions(log, op) ==
  LET IsOp(i) == log[i].op = op
  IN SelectSeq([i \in 1..Len(log) |-> i], IsOp)

\* log cut into its records: each piece starts at a serialize_struct entry
\* and runs up to the next one
RecordSpans(log) ==
  LET st == Positions(log, "serialize_struct")
  IN [j \in 1..Len(st) |->
        SubSeq(log, st[j], IF j < Len(st) THEN st[j + 1] - 1 ELSE Len(log))]

\* log cut at its serialize_element entries, the entry itself left out
ElementSpans(log) ==
  LET st == Positions(log, "serialize_element")
  IN [j \in 1..Len(st) |->
        SubSeq(log, st[j] + 1, IF j < Len(st) THEN st[j + 1] - 1 ELSE Len(log) - 1)]

FieldsOf(span) ==
  LET IsField(e) == e.op = "serialize_field" IN SelectSeq(span, IsField)

Closed(span) == \E i \in 1..Len(span) : span[i].op = "struct_end"

AllOk(log) == \A i \in 1..Len(log) : log[i].ret = "ok"

\* log with every return read as success
MarkOk(log) == [i \in 1..Len(log) |-> [log[i] EXCEPT !.ret = "ok"]]

IsPrefix(a, b) == Len(a) <= Len(b) /\ SubSeq(b, 1, Len(a)) = a

Comparable(a, b) == IsPrefix(a, b) \/ IsPrefix(b, a)

\* the number of space-separated tokens of a string
TokenCount(str) == 1 + Cardinality({i \in 1..Len(str.v) : str.v[i] = " "})

\* field f's transform cannot produce a value from source value d
TransformFails(f, d) ==
  \/ f.transform = "second" /\ TokenCount(Resolve(d, f.path)) < 2
  \/ f.transform = "first" /\ TokenCount(Resolve(d, f.path)) < 1

\* what field f of source value d is to be written as
ExpectedValue(f, d) ==
  LET x == Resolve(d, f.path)
  IN IF f.transform = "none" THEN x ELSE Serialized(ApplyTransform(f.transform, Ref(x)))

RECURSIVE FieldOps(_, _)
\* the sink calls of the fields i.. of source value d and the closing of
\* its record, up to the first transform that fails
FieldOps(d, i) ==
  IF i > Len(mapping) THEN <<StructEnd("ok")>>
  ELSE IF TransformFails(mapping[i], d) THEN <<>>
  ELSE <<SerializeField(mapping[i].name, ExpectedValue(mapping[i], d), "ok")>>
         \o FieldOps(d, i + 1)

\* the single-value document of d, as sink calls
SingleDoc(d) == <<SerializeStruct(DtoName, Len(mapping), "ok")>> \o FieldOps(d, 1)

Completes(d) == \A i \in 1..Len(mapping) : ~TransformFails(mapping[i], d)

RECURSIVE ElementOps(_, _)
ElementOps(vals, j) ==
  IF j > Len(vals) THEN <<SeqEndEntry("ok")>>
  ELSE <<SerializeElement("ok")>> \o SingleDoc(vals[j])
         \o (IF Completes(vals[j]) THEN ElementOps(vals, j + 1) ELSE <<>>)

\* the sink calls of a call over wrapper w that runs alone on a sink that
\* never fails
Alone(w) ==
  IF w.kind \in SeqKinds
    THEN <<SerializeSeq(Len(Logical(w)), "ok")>> \o ElementOps(Logical(w), 1)
    ELSE IF Len(Logical(w)) = 0 THEN <<SerializeNone("ok")>>
    ELSE SingleDoc(Logical(w)[1])

(* ------------------------------------------------------------------ *)
(* Claims                                                              *)
(* ------------------------------------------------------------------ *)

\* C1: a successful serialization through any wrapper kind writes, for the
\* value (when present) or for each element, exactly the N declared output
\* names in declaration order: none skipped, renamed, reordered or doubled.
C1_FieldsInDeclaredOrder ==
  \A c \in Calls :
    Succeeded(c) =>
      LET recs == RecordSpans(sink[c])
      IN /\ Len(recs) = Len(Logical(input[c]))
         /\ \A j \in 1..Len(recs) :
              [i \in 1..Len(FieldsOf(recs[j])) |-> FieldsOf(recs[j])[i].key] = Names(mapping)

C1_Witness ==
  \E c \in Calls :
    /\ Succeeded(c)
    /\ input[c].kind = "_DtoRefVec"
    /\ Len(Logical(input[c])) = 2
    /\ Len(mapping) = 4
    /\ Len(Positions(sink[c], "serialize_field")) = 8

\* C2: every field written by dto_serialize carries, under output_name_i,
\* transform_i of the value at source_path_i, or that value unchanged when
\* field i declares no transform; fields that share a path differ by their
\* transforms.
C2_FieldValues ==
  \A c \in Calls :
    Started(c) =>
      LET recs == RecordSpans(sink[c])
          vals == Logical(input[c])
      IN /\ Len(recs) <= Len(vals)
         /\ \A j \in 1..Len(recs) :
              LET fs == FieldsOf(recs[j])
              IN /\ Len(fs) <= Len(mapping)
                 /\ \A i \in 1..Len(fs) :
                      /\ fs[i].key = mapping[i].name
                      /\ fs[i].value =
                           (LET x == Resolve(vals[j], mapping[i].path)
                            IN CASE mapping[i].transform = "none"   -> x
                                 [] mapping[i].transform = "_IdRef" -> x.key
                                 [] mapping[i].transform = "first"  -> Str(Split(x.v, " ")[1])
                                 [] mapping[i].transform = "second" -> Str(Split(x.v, " ")[2]))

C2_Witness ==
  \E c \in Calls :
    /\ Succeeded(c)
    /\ mapping = TestMapping
    /\ input[c] = Wrap("_DtoRef", Ref(DboNew))
    /\ LET fs == FieldsOf(sink[c])
       IN /\ fs[2].value = Str(<<"H","e","l","l","o">>)
          /\ fs[3].value = Str(<<"w","o","r","l","d","!">>)
          /\ fs[4].value = U8(69)

\* C5: a successful sequence wrapper over K values opens one array of
\* declared length K, writes exactly K elements, the i-th being the
\* single-value document of the i-th input value, and closes the array.
C5_SequenceElements ==
  \A c \in Calls :
    (Succeeded(c) /\ input[c].kind \in SeqKinds) =>
      LET vals == Logical(input[c])
          log == sink[c]
          elems == ElementSpans(log)
      IN /\ log[1] = SerializeSeq(Len(vals), "ok")
         /\ log[Len(log)] = SeqEndEntry("ok")
         /\ Len(Positions(log, "serialize_seq")) = 1
         /\ Len(Positions(log, "seq_end")) = 1
         /\ Len(elems) = Len(vals)
         /\ \A i \in 1..Len(vals) : elems[i] = SingleDoc(vals[i])

C5_Witness ==
  \E c \in Calls :
    /\ Succeeded(c)
    /\ input[c] = Wrap("_DtoVec", Vec(<<DboGap, DboNew>>))
    /\ mapping = TestMapping

\* C6: a sink error stops the call at once: the failed sink call is the
\* last one made (no later field, no end), the call returns that very
\* error, and success means every record got its N fields and was closed.
C6_SinkErrorStopsAndPropagates ==
  \A c \in Calls :
    LET log == sink[c] IN
    /\ \A i \in 1..(Len(log) - 1) : log[i].ret = "ok"
    /\ (Len(log) > 0 /\ log[Len(log)].ret # "ok") =>
          (Done(c) /\ result[c] = Err(log[Len(log)].ret))
    /\ result[c].t = "Err" => (Len(log) > 0 /\ log[Len(log)].ret = result[c].e)
    /\ Succeeded(c) =>
          /\ AllOk(log)
          /\ \A j \in 1..Len(RecordSpans(log)) :
               /\ Len(FieldsOf(RecordSpans(log)[j])) = Len(mapping)
               /\ Closed(RecordSpans(log)[j])

C6_Witness ==
  \E c \in Calls :
    /\ result[c] = Err("E2")
    /\ input[c].kind \in SingleKinds
    /\ Len(sink[c]) = 3
    /\ sink[c][3].op = "serialize_field"
    /\ sink[c][3].ret = "E2"
    /\ Len(mapping) = 4

\* the transform of the field that call c stopped at failed
TransformRaised(c) ==
  /\ Done(c)
  /\ AllOk(sink[c])
  /\ frame[c].fld \in 1..Len(mapping)
  /\ TransformFails(mapping[frame[c].fld], Deref(frame[c].self))

\* C7 as stated: a transform's failure comes back as the call's error result.
C7_TransformErrorIsErrResult ==
  \A c \in Calls : TransformRaised(c) => result[c].t = "Err"

\* C7 as the code has it: a transform fails only by panicking.  The panic
\* aborts the call: the field and those after it are not written, the
\* record is not closed, nothing more reaches the sink, and the call ends
\* by unwinding, with neither Ok nor Err as its result.
C7_TransformPanicAborts ==
  \A c \in Calls :
    Started(c) =>
      LET recs == RecordSpans(sink[c])
          vals == Logical(input[c])
      IN \A j \in 1..Len(recs) :
           \A i \in 1..Len(mapping) :
             TransformFails(mapping[i], vals[j]) =>
               /\ Len(FieldsOf(recs[j])) < i
               /\ ~Closed(recs[j])
               /\ j = Len(recs)
               /\ Len(recs[j]) = 1 + Len(FieldsOf(recs[j]))
               /\ (Done(c) /\ AllOk(sink[c])) => result[c] = Panic

C7_Witness ==
  \E c \in Calls :
    /\ TransformRaised(c)
    /\ result[c] = Panic
    /\ mapping = TestMapping
    /\ frame[c].fld = 3
    /\ Len(FieldsOf(sink[c])) = 2

\* EXP_SER of the tests, as the fields of the document
EXP_SER ==
  << <<"user_id", Str(<<"a","b","c","d","_","1","2","3">>)>>,
     <<"first_name", Str(<<"H","e","l","l","o">>)>>,
     <<"last_name", Str(<<"w","o","r","l","d","!">>)>>,
     <<"age", U8(69)>> >>

\* the document a successful single-value log amounts to
Document(log) ==
  [i \in 1..Len(FieldsOf(log)) |-> <<FieldsOf(log)[i].key, FieldsOf(log)[i].value>>]

\* C8: under the test mapping, _Dto(Dbo::new()) serializes to EXP_SER.
C8_FixtureDocument ==
  \A c \in Calls :
    (Succeeded(c) /\ mapping = TestMapping /\ input[c] = Wrap("_Dto", DboNew)) =>
      Document(sink[c]) = EXP_SER

\* C10: the arity helper gives N for a field list of length N, the record
\* is opened with that size, and a successful serialization writes as many
\* fields as the size it declared.
C10_DeclaredSizeIsFieldCount ==
  /\ \A k \in 1..Len(mapping) : Count(SubSeq(mapping, 1, k)) = k
  /\ \A c \in Calls :
       \A j \in 1..Len(RecordSpans(sink[c])) :
         LET rec == RecordSpans(sink[c])[j]
         IN /\ rec[1].len = Len(mapping)
            /\ Succeeded(c) => Len(FieldsOf(rec)) = rec[1].len

C10_Witness ==
  \E c \in Calls :
    /\ Succeeded(c)
    /\ input[c].kind = "_Dto"
    /\ Len(mapping) = 3
    /\ sink[c][1].op = "serialize_struct"
    /\ sink[c][1].len = 3

\* both wrappers hold one value, or both hold a sequence
SameShape(v, w) ==
  \/ v.kind \in SingleKinds /\ w.kind \in SingleKinds
  \/ v.kind \in SeqKinds /\ w.kind \in SeqKinds

\* C3: wrapper kinds over equal logical values make the same sink calls:
\* _Dto and _DtoRef over one value, and _DtoVec, _DtoVecRef and _DtoRefVec
\* over one sequence; and a successful call has reached dto_serialize once
\* for each value it serializes.
C3_WrapperKindsAgree ==
  /\ \A c \in Calls :
       Succeeded(c) =>
         Len(Positions(sink[c], "serialize_struct")) = Len(Logical(input[c]))
  /\ \A c \in Calls : \A d \in Calls \ {c} :
       ( /\ Started(c)
         /\ Started(d)
         /\ SameShape(input[c], input[d])
         /\ Logical(input[c]) = Logical(input[d]) ) =>
           /\ Comparable(MarkOk(sink[c]), MarkOk(sink[d]))
           /\ (Succeeded(c) /\ Succeeded(d)) => sink[c] = sink[d]

C3_Witness ==
  \E c \in Calls : \E d \in Calls :
    /\ Succeeded(c)
    /\ Succeeded(d)
    /\ input[c] = Wrap("_DtoVec", Vec(<<DboNew>>))
    /\ input[d] = Wrap("_DtoRefVec", Vec(<<Ref(DboNew)>>))
    /\ mapping = TestMapping
    /\ Len(sink[c]) = 9

\* the option a wrapper of an optional kind holds is None
Absent(w) == w.kind \in OptionKinds /\ Len(Logical(w)) = 0
Present(w) == w.kind \in OptionKinds /\ Len(Logical(w)) = 1

\* C4: an absent optional wrapper makes one sink call, serialize_none, and
\* opens no record; a present one makes the sink calls of the non-optional
\* single-value wrapper over the value it holds.
C4_OptionalWrappers ==
  \A c \in Calls :
    Started(c) =>
      /\ Absent(input[c]) =>
           /\ Len(sink[c]) <= 1
           /\ \A i \in 1..Len(sink[c]) : sink[c][i].op = "serialize_none"
           /\ Done(c) =>
                /\ Len(sink[c]) = 1
                /\ result[c] = (IF sink[c][1].ret = "ok" THEN Ok ELSE Err(sink[c][1].ret))
      /\ Present(input[c]) =>
           \A d \in Calls \ {c} :
             ( /\ Started(d)
               /\ input[d].kind \in SingleKinds
               /\ Logical(input[d]) = Logical(input[c]) ) =>
                 /\ Comparable(MarkOk(sink[c]), MarkOk(sink[d]))
                 /\ (Succeeded(c) /\ Succeeded(d)) => sink[c] = sink[d]
                 /\ (Done(c) /\ Done(d) /\ AllOk(sink[c]) /\ AllOk(sink[d])) =>
                      (sink[c] = sink[d] /\ result[c] = result[d])

C4_Witness ==
  \E c \in Calls : \E d \in Calls :
    /\ Succeeded(c)
    /\ Succeeded(d)
    /\ input[c] = Wrap("_DtoOptionRef", Ref(Some(DboNew)))
    /\ input[d] = Wrap("_Dto", DboNew)
    /\ mapping = TestMapping
    /\ Len(sink[c]) = 6

\* everything that belongs to call c
CallState(c) == <<frame[c], input[c], sink[c], result[c]>>

\* at every moment the sink of a call holds a prefix of what the call makes
\* when it runs alone, and all of it once the call has ended
C9_AsAlone ==
  \A c \in Calls :
    Started(c) =>
      /\ IsPrefix(MarkOk(sink[c]), Alone(input[c]))
      /\ (Done(c) /\ AllOk(sink[c])) => sink[c] = Alone(input[c])
      /\ Succeeded(c) => sink[c] = Alone(input[c])

\* a step belongs to one call, and leaves the mapping and the source value
\* of every started call as they were
C9_OwnStateOnly ==
  /\ mapping' = mapping
  /\ \A c \in Calls : Started(c) => input'[c] = input[c]
  /\ \A c \in Calls : \A d \in Calls \ {c} :
       CallState(c)' = CallState(c) \/ CallState(d)' = CallState(d)

\* C9: serialize calls are reentrant: with the steps of two calls over their
\* own sinks interleaved in any order, each sink receives the writes its
\* call makes when run alone, and no step of a call changes what belongs to
\* the other call or the call's own source value.
C9_Reentrant == []C9_AsAlone /\ [][C9_OwnStateOnly]_vars

\* both calls are in the middle of their records at the same time, over
\* different source values
C9_Witness ==
  /\ Calls = {1, 2}
  /\ frame[1].pc = "dto_field"
  /\ frame[2].pc = "dto_field"
  /\ frame[1].fld = 3
  /\ frame[2].fld = 2
  /\ Logical(input[1]) = <<DboNew>>
  /\ Logical(input[2]) = <<DboSolo>>
  /\ Len(sink[1]) = 3
  /\ Len(sink[2]) = 2

====
